---- MODULE Spec2Model ----
(***************************************************************************)
(* Model of the Telegram "find this audio on Spotify" bot (main.go).       *)
(*                                                                         *)
(* Strings are sequences of one-character strings.  The literal pieces of  *)
(* format strings and of the HTML template, and the entities produced by   *)
(* an escaper, are single multi-character elements, so that interpolated   *)
(* text can always be told apart from the text around it.                  *)
(***************************************************************************)
EXTENDS Integers, Sequences, FiniteSets, TLC

VARIABLES
    debug,      \* log.IsLevelEnabled(log.DebugLevel), fixed by the -log-level flag
    cycle,      \* per dispatcher goroutine: the dispatch cycle of one update
    xAudio,     \* query extraction alone: the attachment
    xQuery,     \* query extraction alone: the extracted query
    xPc         \* query extraction alone: "off", "input" or "extracted"

vars == <<debug, cycle, xAudio, xQuery, xPc>>

(***************************************************************************)
(* Bounds                                                                  *)
(***************************************************************************)
MaxPad == 1      \* longest run of padding spaces around a piece of a string
MaxTracks == 2   \* tracks on one page of a search result

Workers == {"g1", "g2"}

(***************************************************************************)
(* strings.TrimSpace, strings.TrimSuffix, fmt.Sprintf("%s %s")             *)
(***************************************************************************)
Space == {" ", "\t"}

RECURSIVE TrimLeft(_)
TrimLeft(s) ==
    IF s # <<>> /\ Head(s) \in Space THEN TrimLeft(Tail(s)) ELSE s

RECURSIVE TrimRight(_)
TrimRight(s) ==
    IF s # <<>> /\ s[Len(s)] \in Space
    THEN TrimRight(SubSeq(s, 1, Len(s) - 1))
    ELSE s

TrimSpace(s) == TrimRight(TrimLeft(s))

HasSuffix(s, suffix) ==
    /\ Len(s) >= Len(suffix)
    /\ SubSeq(s, Len(s) - Len(suffix) + 1, Len(s)) = suffix

TrimSuffix(s, suffix) ==
    IF HasSuffix(s, suffix) THEN SubSeq(s, 1, Len(s) - Len(suffix)) ELSE s

DotMp3 == <<".", "m", "p", "3">>

\* Mutants of the query extraction: the joined metadata is not trimmed again;
\* the file name is trimmed before its suffix is removed; the file name is not
\* trimmed at all.
ExtractQueryNoFinalTrim(a) ==
    LET title == TrimSpace(a.Title)
        author == TrimSpace(a.Performer)
        q == title \o <<" ">> \o author
    IN  IF TrimSpace(q) = <<>>
        THEN TrimSpace(TrimSuffix(a.FileName, DotMp3))
        ELSE q

ExtractQueryTrimBeforeSuffix(a) ==
    LET title == TrimSpace(a.Title)
        author == TrimSpace(a.Performer)
        q == TrimSpace(title \o <<" ">> \o author)
    IN  IF q = <<>>
        THEN TrimSuffix(TrimSpace(a.FileName), DotMp3)
        ELSE q

ExtractQueryNoFileTrim(a) ==
    LET title == TrimSpace(a.Title)
        author == TrimSpace(a.Performer)
        q == TrimSpace(title \o <<" ">> \o author)
    IN  IF q = <<>>
        THEN TrimSuffix(a.FileName, DotMp3)
        ELSE q

\* handleAudioMessage, lines 198-206: the query of an audio attachment.
ExtractQuery(a) ==
    LET title == TrimSpace(a.Title)
        author == TrimSpace(a.Performer)
        q == TrimSpace(title \o <<" ">> \o author)
    IN  IF q = <<>>
        THEN TrimSpace(TrimSuffix(a.FileName, DotMp3))
        ELSE q

(***************************************************************************)
(* Attachments for the extraction taken alone                              *)
(***************************************************************************)
Spaces(n) == [i \in 1..n |-> " "]
Pads == {Spaces(n) : n \in 0..MaxPad}
Padded(cores) == {l \o c \o r : l \in Pads, c \in cores, r \in Pads}

MetaCores == {<<>>, <<"\t">>, <<"a">>, <<"a", " ", "b">>}
Stems == {<<>>, <<"a">>}
Suffixes == {<<>>, DotMp3, <<".", "M", "P", "3">>, <<".", "o", "g", "g">>}
FileNames ==
    {l \o s \o m \o x \o r :
        l \in Pads, s \in Stems, m \in Pads, x \in Suffixes, r \in Pads}

Audio(t, p, f) == [Title |-> t, Performer |-> p, FileName |-> f]
NoAudio == Audio(<<>>, <<>>, <<>>)
Audios ==
    {Audio(t, p, f) : t \in Padded(MetaCores), p \in Padded(MetaCores), f \in FileNames}

(***************************************************************************)
(* url.PathEscape and the escapers html/template applies                   *)
(***************************************************************************)
\* url.PathEscape: a path segment keeps letters, digits, "-_.~" and "$&+=:@".
PathEscapeChar(c) ==
    CASE c = " " -> <<"%", "2", "0">>
      [] c = "\t" -> <<"%", "0", "9">>
      [] c = "?" -> <<"%", "3", "F">>
      [] c = "/" -> <<"%", "2", "F">>
      [] c = "%" -> <<"%", "2", "5">>
      [] OTHER -> <<c>>

RECURSIVE PathEscape(_)
PathEscape(s) ==
    IF s = <<>> THEN <<>> ELSE PathEscapeChar(Head(s)) \o PathEscape(Tail(s))

\* html/template in element content: {{.Name}}, {{.Artists}}.
HTMLEscapeChar(c) ==
    CASE c = "&" -> <<"&amp;">>
      [] c = "<" -> <<"&lt;">>
      [] c = ">" -> <<"&gt;">>
      [] c = "'" -> <<"&#39;">>
      [] c = "\"" -> <<"&#34;">>
      [] c = "+" -> <<"&#43;">>
      [] OTHER -> <<c>>

RECURSIVE HTMLEscape(_)
HTMLEscape(s) ==
    IF s = <<>> THEN <<>> ELSE HTMLEscapeChar(Head(s)) \o HTMLEscape(Tail(s))

\* html/template in href="{{.URL}}": the URL normalizer, then the attribute escaper.
URLNormalizeChar(c) ==
    CASE c = " " -> <<"%", "2", "0">>
      [] OTHER -> <<c>>

AttrEscapeChar(c) ==
    CASE c = "&" -> <<"&amp;">>
      [] c = "<" -> <<"&lt;">>
      [] c = ">" -> <<"&gt;">>
      [] c = "'" -> <<"&#39;">>
      [] c = "\"" -> <<"&#34;">>
      [] c = "+" -> <<"&#43;">>
      [] OTHER -> <<c>>

RECURSIVE URLNormalize(_)
URLNormalize(s) ==
    IF s = <<>> THEN <<>> ELSE URLNormalizeChar(Head(s)) \o URLNormalize(Tail(s))

RECURSIVE AttrEscape(_)
AttrEscape(s) ==
    IF s = <<>> THEN <<>> ELSE AttrEscapeChar(Head(s)) \o AttrEscape(Tail(s))

HrefEscape(s) == AttrEscape(URLNormalize(s))

(***************************************************************************)
(* The catalog: tracks and search results                                  *)
(***************************************************************************)
TrackURL == "https://open.spotify.com/track/"

Catalog ==
    { [Name |-> <<"S">>,
       Artists |-> << <<"A">>, <<"B", "'">> >>,
       URL |-> <<TrackURL, "1">>],
      [Name |-> <<"R", "&", "B">>,
       Artists |-> << <<"C", "<">> >>,
       URL |-> <<TrackURL, "2", "&", "x">>] }

Min(a, b) == IF a < b THEN a ELSE b

\* A successful search returns the first page of the matches: Total counts all
\* the matches, Tracks holds the first MaxTracks of them.
SearchResults ==
    UNION { { [ok |-> TRUE, Total |-> n, Tracks |-> ts] :
                ts \in [1..Min(n, MaxTracks) -> Catalog] } :
            n \in 0..(MaxTracks + 1) }

SearchFailed == [ok |-> FALSE, Total |-> 0, Tracks |-> <<>>]

\* searchSpotify: the outcomes of one call to the catalog.
searchSpotify == SearchResults \cup {SearchFailed}

(***************************************************************************)
(* Replies                                                                 *)
(***************************************************************************)
TextMissing == <<"Audio metadata or filename is missing.">>
TextSearchFailed == <<"Failed to search Spotify.">>
TextSendAudio == <<"Send me an audio file to search on Spotify.">>
TextNoResults == "No results found on Spotify by query "
Backquote == "[backquote]"   \* stands for the one-character string holding a backquote
SearchBase == "https://open.spotify.com/search"

Plain(text) == [text |-> text, parseMode |-> "", buttons |-> <<>>]

\* Mutant: the query is put into the URL as it is.
buildSpotifyUserSearchURLRaw(query) == <<SearchBase, "/">> \o query

buildSpotifyUserSearchURL(query) == <<SearchBase, "/">> \o PathEscape(query)

searchBtn(query) == [Text |-> "Search", Url |-> buildSpotifyUserSearchURL(query)]

RECURSIVE Join(_, _)
Join(names, sep) ==
    IF names = <<>> THEN <<>>
    ELSE IF Len(names) = 1 THEN names[1]
    ELSE names[1] \o sep \o Join(Tail(names), sep)

TplOpen == "<a href=\""
TplMid == "\">"
TplBy == "</a>\nby <b>"
TplEnd == "</b>"

\* renderOk: whether parsing and executing the template succeed.
buildResultText(track, renderOk) ==
    IF ~renderOk THEN [ok |-> FALSE, text |-> <<>>]
    ELSE [ok |-> TRUE,
          text |-> <<TplOpen>> \o HrefEscape(track.URL) \o <<TplMid>>
                   \o HTMLEscape(track.Name) \o <<TplBy>>
                   \o HTMLEscape(Join(track.Artists, <<",", " ">>)) \o <<TplEnd>>]

(***************************************************************************)
(* Handlers.  A handler's run is its calls, in order, to the catalog and   *)
(* to the chat, the lines it logs itself and the error it returns.         *)
(***************************************************************************)
ErrNil == "nil"
ErrEmptyQuery == "audio metadata or filename is missing"
ErrSearch == "search failed"
ErrRender == "template failed"
ErrSend == "send failed"
ErrMarshal == "failed to marshal update"
ContinueGroups == "ContinueGroups"

Search(query) == [to |-> "catalog", query |-> query, reply |-> Plain(<<>>)]
Send(reply) == [to |-> "chat", query |-> <<>>, reply |-> reply]

\* checkSendMsgErr
checkSendMsgErr(sendOk) == IF sendOk THEN <<>> ELSE <<"Failed to send message">>

Run(query, results, calls, log, err) ==
    [query |-> query, results |-> results, calls |-> calls, log |-> log, err |-> err]

\* Mutant: the early return is lost, the handler goes on to search and reply again.
EmptyQueryRunNoReturn(query, sendOk) ==
    Run(query, SearchFailed,
        <<Send(Plain(TextMissing)), Search(query), Send(Plain(TextSearchFailed))>>,
        checkSendMsgErr(sendOk), ErrSearch)

\* handleAudioMessage, lines 207-211
EmptyQueryRun(query, sendOk) ==
    Run(query, SearchFailed, <<Send(Plain(TextMissing))>>,
        checkSendMsgErr(sendOk), ErrEmptyQuery)

\* Mutant: the error of the search is swallowed.
SearchFailedRunSwallowed(query, found, sendOk) ==
    Run(query, found, <<Search(query), Send(Plain(TextSearchFailed))>>,
        checkSendMsgErr(sendOk), ErrNil)

\* handleAudioMessage, lines 213-218
SearchFailedRun(query, found, sendOk) ==
    Run(query, found, <<Search(query), Send(Plain(TextSearchFailed))>>,
        checkSendMsgErr(sendOk), ErrSearch)

\* handleAudioMessage, lines 225-234
NoResultsRun(query, found, sendOk) ==
    Run(query, found,
        <<Search(query),
          Send([text |-> <<TextNoResults, Backquote>> \o query \o <<Backquote>>,
                parseMode |-> "",
                buttons |-> <<searchBtn(query)>>])>>,
        <<>>, IF sendOk THEN ErrNil ELSE ErrSend)

\* Mutant: the last track of the page is shown.
TopTrackLast(found) == found.Tracks[Len(found.Tracks)]

\* handleAudioMessage, line 235
TopTrack(found) == found.Tracks[1]

\* Mutant: a failed rendering is answered with the plain failure text.
ResultRunReplyOnRenderFailure(query, found, renderOk, sendOk) ==
    LET text == buildResultText(TopTrack(found), renderOk)
    IN  IF ~text.ok
        THEN Run(query, found, <<Search(query), Send(Plain(TextSearchFailed))>>,
                 <<>>, ErrRender)
        ELSE Run(query, found,
                 <<Search(query),
                   Send([text |-> text.text,
                         parseMode |-> "HTML",
                         buttons |-> <<searchBtn(query)>>])>>,
                 <<>>, IF sendOk THEN ErrNil ELSE ErrSend)

\* handleAudioMessage, lines 235-252
ResultRun(query, found, renderOk, sendOk) ==
    LET text == buildResultText(TopTrack(found), renderOk)
    IN  IF ~text.ok
        THEN Run(query, found, <<Search(query)>>, <<>>, ErrRender)
        ELSE Run(query, found,
                 <<Search(query),
                   Send([text |-> text.text,
                         parseMode |-> "HTML",
                         buttons |-> <<searchBtn(query)>>])>>,
                 <<>>, IF sendOk THEN ErrNil ELSE ErrSend)

\* found: what the one call of searchSpotify returns, when the handler gets to it.
handleAudioMessage(a, found, renderOk, sendOk) ==
    LET query == ExtractQuery(a)
    IN  IF query = <<>> THEN EmptyQueryRun(query, sendOk)
        ELSE IF ~found.ok THEN SearchFailedRun(query, found, sendOk)
        ELSE IF found.Total = 0 THEN NoResultsRun(query, found, sendOk)
        ELSE ResultRun(query, found, renderOk, sendOk)

handleUnknownMessage(sendOk) ==
    Run(<<>>, SearchFailed, <<Send(Plain(TextSendAudio))>>, <<>>,
        IF sendOk THEN ErrNil ELSE ErrSend)

\* HandleAnything.HandleUpdate: what the observer returns.
HandleUpdate(dbg, marshalOk) ==
    IF dbg /\ ~marshalOk THEN ErrMarshal ELSE ContinueGroups

(***************************************************************************)
(* Updates and the dispatcher                                              *)
(***************************************************************************)
\* Attachments the dispatch cycles are followed on: one per path of the handler.
InboxAudios ==
    { NoAudio,
      Audio(<<" ">>, <<"\t">>, <<" ", " ">>),
      Audio(<<" ", "I", " ">>, <<" ", "J", " ", "L", " ">>, <<"w">> \o DotMp3),
      Audio(<<>>, <<>>, <<"M", " ", "S">> \o DotMp3),
      Audio(<<>>, <<>>, DotMp3),
      Audio(<<"a", "?", "b">>, <<"c", "&", "d">>, <<>>) }

\* kind "audio": a message with an audio attachment; "text": any other message;
\* "other": an update that carries no message (an edited message, a callback).
Updates ==
    {[kind |-> "audio", audio |-> a] : a \in InboxAudios}
        \cup {[kind |-> "text", audio |-> NoAudio], [kind |-> "other", audio |-> NoAudio]}

NoUpdate == [kind |-> "none", audio |-> NoAudio]

\* main, lines 117-118: the handlers of group 0 in registration order.
Group0 == <<"handleAudioMessage", "handleUnknownMessage">>

\* handlers.NewMessage(message.Audio, ...) and handlers.NewMessage(message.All, ...)
CheckUpdate(h, u) ==
    CASE h = "anything" -> TRUE
      [] h = "handleAudioMessage" -> u.kind = "audio"
      [] h = "handleUnknownMessage" -> u.kind \in {"audio", "text"}

\* The handler of group 0 the dispatcher invokes: the first whose filter matches.
FirstMatch(u) ==
    LET hits == {i \in 1..Len(Group0) : CheckUpdate(Group0[i], u)}
    IN  IF hits = {} THEN "none"
        ELSE Group0[CHOOSE i \in hits : \A j \in hits : i <= j]

\* main, lines 110-113: what the Error hook tells the dispatcher to do.
ErrorAction == "EndGroups"

LogHandlerError == "An error occurred while handling update"

Idle ==
    [stage |-> "idle", update |-> NoUpdate, invoked |-> <<>>, query |-> <<>>,
     results |-> SearchFailed, calls |-> <<>>, log |-> <<>>, err |-> ErrNil]

\* The updater hands an update to a dispatcher goroutine.
Receive(w) ==
    /\ cycle[w].stage = "idle"
    /\ \E u \in Updates :
        cycle' = [cycle EXCEPT ![w] = [Idle EXCEPT !.stage = "received", !.update = u]]
    /\ UNCHANGED <<debug, xAudio, xQuery, xPc>>

\* Group -1: HandleAnything, and what the dispatcher does with what it returns.
Observe(w) ==
    /\ cycle[w].stage = "received"
    /\ CheckUpdate("anything", cycle[w].update)
    /\ \E marshalOk \in BOOLEAN :
        LET r == HandleUpdate(debug, marshalOk)
            failed == r # ContinueGroups
        IN  cycle' = [cycle EXCEPT ![w] =
                [@ EXCEPT !.invoked = Append(@, "anything"),
                          !.err = IF failed THEN r ELSE ErrNil,
                          !.log = IF failed THEN Append(@, LogHandlerError) ELSE @,
                          !.stage = IF failed /\ ErrorAction = "EndGroups"
                                    THEN "done" ELSE "group0"]]
    /\ UNCHANGED <<debug, xAudio, xQuery, xPc>>

\* The end of a handler of group 0: a returned error goes to the Error hook.
Handled(w, h, run) ==
    cycle' = [cycle EXCEPT ![w] =
        [@ EXCEPT !.invoked = Append(@, h),
                  !.query = run.query,
                  !.results = run.results,
                  !.calls = run.calls,
                  !.err = run.err,
                  !.log = IF run.err # ErrNil
                          THEN run.log \o <<LogHandlerError>>
                          ELSE run.log,
                  !.stage = "done"]]

DispatchAudio(w) ==
    /\ cycle[w].stage = "group0"
    /\ FirstMatch(cycle[w].update) = "handleAudioMessage"
    /\ \E found \in searchSpotify, renderOk \in BOOLEAN, sendOk \in BOOLEAN :
        Handled(w, "handleAudioMessage",
                handleAudioMessage(cycle[w].update.audio, found, renderOk, sendOk))
    /\ UNCHANGED <<debug, xAudio, xQuery, xPc>>

DispatchUnknown(w) ==
    /\ cycle[w].stage = "group0"
    /\ FirstMatch(cycle[w].update) = "handleUnknownMessage"
    /\ \E sendOk \in BOOLEAN :
        Handled(w, "handleUnknownMessage", handleUnknownMessage(sendOk))
    /\ UNCHANGED <<debug, xAudio, xQuery, xPc>>

\* No handler of group 0 matches: the cycle ends.
DispatchNone(w) ==
    /\ cycle[w].stage = "group0"
    /\ FirstMatch(cycle[w].update) = "none"
    /\ cycle' = [cycle EXCEPT ![w].stage = "done"]
    /\ UNCHANGED <<debug, xAudio, xQuery, xPc>>

\* The goroutine of the cycle ends.
Finish(w) ==
    /\ cycle[w].stage = "done"
    /\ cycle' = [cycle EXCEPT ![w] = Idle]
    /\ UNCHANGED <<debug, xAudio, xQuery, xPc>>

Init ==
    /\ debug \in BOOLEAN
    /\ cycle = [w \in Workers |-> Idle]
    /\ xAudio = NoAudio
    /\ xQuery = <<>>
    /\ xPc = "off"

Next ==
    \E w \in Workers :
        \/ Receive(w)
        \/ Observe(w)
        \/ DispatchAudio(w)
        \/ DispatchUnknown(w)
        \/ DispatchNone(w)
        \/ Finish(w)

Spec == Init /\ [][Next]_vars

(***************************************************************************)
(* The query extraction taken alone, over every attachment of Audios       *)
(***************************************************************************)
InitExtract ==
    /\ debug = FALSE
    /\ cycle = [w \in Workers |-> Idle]
    /\ xAudio \in Audios
    /\ xQuery = <<>>
    /\ xPc = "input"

Extract ==
    /\ xPc = "input"
    /\ xQuery' = ExtractQuery(xAudio)
    /\ xPc' = "extracted"
    /\ UNCHANGED <<debug, cycle, xAudio>>

NextExtract == Extract

SpecExtract == InitExtract /\ [][NextExtract]_vars

(***************************************************************************)
(* Vocabulary of the properties                                            *)
(***************************************************************************)
IsChat(c) == c.to = "chat"
IsCatalog(c) == c.to = "catalog"
Replies(c) == SelectSeq(c.calls, IsChat)
Searches(c) == SelectSeq(c.calls, IsCatalog)
Ran(c, h) == \E i \in 1..Len(c.invoked) : c.invoked[i] = h
RanGroup0(c) == Ran(c, "handleAudioMessage") \/ Ran(c, "handleUnknownMessage")
Ended(w) == cycle[w].stage = "done"

Blank(s) == \A i \in 1..Len(s) : s[i] \in {" ", "\t"}

\* q is s without the white space around it.
IsTrimOf(q, s) ==
    \E i \in 0..Len(s) :
        /\ i + Len(q) <= Len(s)
        /\ \A k \in 1..Len(q) : q[k] = s[i + k]
        /\ \A k \in 1..i : s[k] \in {" ", "\t"}
        /\ \A k \in (i + Len(q) + 1)..Len(s) : s[k] \in {" ", "\t"}
        /\ q # <<>> => q[1] \notin {" ", "\t"} /\ q[Len(q)] \notin {" ", "\t"}

Pieces(s) == {SubSeq(s, i, j) : i \in 1..(Len(s) + 1), j \in 0..Len(s)}

\* s is g followed by x, for some g.
EndsWith(s, x) == \E g \in Pieces(s) : s = g \o x
Without(s, x) == CHOOSE g \in Pieces(s) : s = g \o x

\* C4: when the title or the performer is not blank, the query is
\* trim(trim(title) + " " + trim(performer)), whatever the file name is.
C4_QueryFromMetadata ==
    (xPc = "extracted" /\ (~Blank(xAudio.Title) \/ ~Blank(xAudio.Performer))) =>
        \E t \in Pieces(xAudio.Title), p \in Pieces(xAudio.Performer) :
            /\ IsTrimOf(t, xAudio.Title)
            /\ IsTrimOf(p, xAudio.Performer)
            /\ IsTrimOf(xQuery, t \o <<" ">> \o p)

C4_Witness ==
    /\ xPc = "extracted"
    /\ xAudio.Title = <<" ", "a", " ", "b", " ">>
    /\ xAudio.Performer = <<" ", "a", " ">>
    /\ xAudio.FileName = <<"a", ".", "m", "p", "3">>
    /\ xQuery = <<"a", " ", "b", " ", "a">>

AudioSuffixes == {<<".", "m", "p", "3">>, <<".", "M", "P", "3">>, <<".", "o", "g", "g">>}

\* C5 as stated: with a blank title and performer and a file name that is not
\* blank, the query is the file name without its audio suffix, trimmed; the
\* suffix may be followed by white space, be written in another case, or be
\* another audio suffix.
C5_AnyAudioSuffix ==
    (/\ xPc = "extracted"
     /\ Blank(xAudio.Title) /\ Blank(xAudio.Performer)
     /\ ~Blank(xAudio.FileName)) =>
        \E name \in Pieces(xAudio.FileName) :
            /\ IsTrimOf(name, xAudio.FileName)
            /\ IF \E x \in AudioSuffixes : EndsWith(name, x)
               THEN \E x \in AudioSuffixes :
                        EndsWith(name, x) /\ IsTrimOf(xQuery, Without(name, x))
               ELSE xQuery = name

\* C5 amended: with a blank title and performer and a file name that is not
\* blank, the query is the trimmed file name, after the removal of ".mp3" when
\* the file name ends with exactly these four characters; any other ending
\* (".MP3", ".ogg", ".mp3" followed by white space) stays in the query.
C5_Mp3SuffixOnly ==
    (/\ xPc = "extracted"
     /\ Blank(xAudio.Title) /\ Blank(xAudio.Performer)
     /\ ~Blank(xAudio.FileName)) =>
        IF EndsWith(xAudio.FileName, <<".", "m", "p", "3">>)
        THEN IsTrimOf(xQuery, Without(xAudio.FileName, <<".", "m", "p", "3">>))
        ELSE IsTrimOf(xQuery, xAudio.FileName)

C5_Witness ==
    /\ xPc = "extracted"
    /\ xAudio.Title = <<>>
    /\ xAudio.Performer = <<" ">>
    /\ xAudio.FileName = <<" ", "a", " ", ".", "m", "p", "3">>
    /\ xQuery = <<"a">>

\* C1 as stated: a message whose handler of group 0 is invoked gets exactly one
\* reply, on every path through the handler, a failed rendering included.
C1_OneReplyOnEveryPath ==
    \A w \in Workers :
        (Ended(w) /\ RanGroup0(cycle[w])) => Len(Replies(cycle[w])) = 1

\* C1 amended: a handler of group 0 sends exactly one reply on every path but
\* the failed rendering, on which it sends none; a cycle in which no handler of
\* group 0 is invoked sends none; the one reply of the catch-all handler is the
\* "send me audio" text.
C1_OneReplyUnlessRenderFails ==
    \A w \in Workers :
        Ended(w) =>
            /\ Len(Replies(cycle[w])) =
                   IF RanGroup0(cycle[w]) /\ cycle[w].err # ErrRender THEN 1 ELSE 0
            /\ Ran(cycle[w], "handleUnknownMessage") =>
                   Replies(cycle[w])[1].reply.text =
                       <<"Send me an audio file to search on Spotify.">>

C1_Witness ==
    \E w \in Workers :
        /\ Ended(w)
        /\ Ran(cycle[w], "handleAudioMessage")
        /\ cycle[w].err = ErrRender
        /\ Replies(cycle[w]) = <<>>
        /\ \E v \in Workers :
            /\ Ended(v)
            /\ Ran(cycle[v], "handleUnknownMessage")
            /\ Len(Replies(cycle[v])) = 1

\* C2: a message with an audio attachment is handled by the audio handler and
\* never by the catch-all handler; a message without one is handled by the
\* catch-all handler, whose reply is "Send me an audio file to search on Spotify.".
C2_FirstMatchWins ==
    \A w \in Workers :
        Ended(w) =>
            /\ cycle[w].update.kind = "audio" =>
                   ~Ran(cycle[w], "handleUnknownMessage")
            /\ cycle[w].update.kind = "text" =>
                   /\ Ran(cycle[w], "handleUnknownMessage")
                   /\ ~Ran(cycle[w], "handleAudioMessage")
                   /\ Replies(cycle[w]) =
                          <<Send(Plain(<<"Send me an audio file to search on Spotify.">>))>>

\* C3: the observer never ends the dispatch chain: once it has run on a
\* message, the audio or the catch-all handler is invoked for that message, at
\* every log level, also when marshalling the update fails.
C3_ObserverYields ==
    \A w \in Workers :
        (/\ cycle[w].stage \in {"group0", "done"}
         /\ Ran(cycle[w], "anything")
         /\ cycle[w].update.kind \in {"audio", "text"}) =>
            \/ cycle[w].stage = "group0"
            \/ RanGroup0(cycle[w])

\* C6: an audio attachment whose title, performer and file name are all blank
\* is answered with "Audio metadata or filename is missing.", the handler
\* returns an error, which the Error hook logs, and the catalog is not searched.
C6_EmptyQuery ==
    \A w \in Workers :
        (/\ Ended(w)
         /\ Ran(cycle[w], "handleAudioMessage")
         /\ Blank(cycle[w].update.audio.Title)
         /\ Blank(cycle[w].update.audio.Performer)
         /\ Blank(cycle[w].update.audio.FileName)) =>
            /\ cycle[w].calls =
                   <<Send(Plain(<<"Audio metadata or filename is missing.">>))>>
            /\ cycle[w].err = "audio metadata or filename is missing"
            /\ cycle[w].log # <<>>
            /\ cycle[w].log[Len(cycle[w].log)] = LogHandlerError

C6_Witness ==
    \E w \in Workers :
        /\ Ended(w)
        /\ Ran(cycle[w], "handleAudioMessage")
        /\ cycle[w].update.audio = Audio(<<" ">>, <<"\t">>, <<" ", " ">>)
        /\ Len(Replies(cycle[w])) = 1
        /\ Searches(cycle[w]) = <<>>

\* Reading a percent-encoded path segment back.
PctChar(h, l) ==
    CASE h = "2" /\ l = "0" -> " "
      [] h = "0" /\ l = "9" -> "\t"
      [] h = "3" /\ l = "F" -> "?"
      [] h = "2" /\ l = "F" -> "/"
      [] h = "2" /\ l = "5" -> "%"
      [] OTHER -> "invalid"

RECURSIVE PathUnescape(_)
PathUnescape(s) ==
    IF s = <<>> THEN <<>>
    ELSE IF s[1] = "%" /\ Len(s) >= 3
    THEN <<PctChar(s[2], s[3])>> \o PathUnescape(SubSeq(s, 4, Len(s)))
    ELSE <<s[1]>> \o PathUnescape(Tail(s))

\* Reading escaped HTML back.
Entity(e) ==
    CASE e = "&amp;" -> "&"
      [] e = "&lt;" -> "<"
      [] e = "&gt;" -> ">"
      [] e = "&#39;" -> "'"
      [] e = "&#34;" -> "\""
      [] e = "&#43;" -> "+"
      [] OTHER -> e

HTMLUnescape(s) == [i \in 1..Len(s) |-> Entity(s[i])]

Contains(s, q) == \E i \in 0..(Len(s) - Len(q)) : SubSeq(s, i + 1, i + Len(q)) = q
At(s, e) == CHOOSE i \in 1..Len(s) : s[i] = e
Between(s, a, b) == SubSeq(s, At(s, a) + 1, At(s, b) - 1)
Has(s, e) == \E i \in 1..Len(s) : s[i] = e

NoResultsReply(r) == r.text # <<>> /\ r.text[1] = "No results found on Spotify by query "

RECURSIVE CommaList(_)
CommaList(names) ==
    IF Len(names) = 0 THEN <<>>
    ELSE IF Len(names) = 1 THEN names[1]
    ELSE CommaList(SubSeq(names, 1, Len(names) - 1)) \o <<",", " ">> \o names[Len(names)]

\* C8: after a successful search with at least one track, the reply is built
\* from the first track alone: the link target is its URL, the link text is its
\* name, and its artists follow, joined by ", " in their order.  The handler
\* sends this one reply unless the rendering fails.
C8_FirstTrack ==
    \A w \in Workers :
        (/\ Ended(w) /\ Ran(cycle[w], "handleAudioMessage")
         /\ cycle[w].results.ok /\ Len(cycle[w].results.Tracks) >= 1) =>
            /\ cycle[w].err # ErrRender => Len(Replies(cycle[w])) = 1
            /\ \A i \in 1..Len(Replies(cycle[w])) :
                LET text == Replies(cycle[w])[i].reply.text
                    first == cycle[w].results.Tracks[1]
                IN  /\ Has(text, "<a href=\"") /\ Has(text, "\">")
                    /\ Has(text, "</a>\nby <b>") /\ Has(text, "</b>")
                    /\ At(text, "<a href=\"") = 1 /\ At(text, "</b>") = Len(text)
                    /\ HTMLUnescape(Between(text, "<a href=\"", "\">")) = first.URL
                    /\ HTMLUnescape(Between(text, "\">", "</a>\nby <b>")) = first.Name
                    /\ HTMLUnescape(Between(text, "</a>\nby <b>", "</b>"))
                           = CommaList(first.Artists)

C8_Witness ==
    \E w \in Workers :
        /\ Ended(w)
        /\ cycle[w].results.ok
        /\ Len(cycle[w].results.Tracks) = 2
        /\ cycle[w].results.Tracks[1] # cycle[w].results.Tracks[2]
        /\ Len(cycle[w].results.Tracks[1].Artists) = 2
        /\ Len(Replies(cycle[w])) = 1
        /\ Replies(cycle[w])[1].reply.parseMode = "HTML"

\* C9: a dispatch cycle calls the catalog at most once and sends at most one
\* reply; the catalog is called only by the audio handler, on a message with an
\* audio attachment, with a query that is not empty, and before the reply.
C9_AtMostOnce ==
    \A w \in Workers :
        /\ Len(Searches(cycle[w])) <= 1
        /\ Len(Replies(cycle[w])) <= 1
        /\ Searches(cycle[w]) # <<>> =>
               /\ cycle[w].update.kind = "audio"
               /\ Ran(cycle[w], "handleAudioMessage")
               /\ Searches(cycle[w])[1].query # <<>>
        /\ \A i, j \in 1..Len(cycle[w].calls) :
               (IsCatalog(cycle[w].calls[i]) /\ IsChat(cycle[w].calls[j])) => i < j

C9_Witness ==
    \E w \in Workers :
        /\ Ended(w)
        /\ Len(Searches(cycle[w])) = 1
        /\ Len(Replies(cycle[w])) = 1
        /\ \E v \in Workers :
            /\ Ended(v)
            /\ cycle[v].update.kind = "audio"
            /\ Searches(cycle[v]) = <<>>

\* C10: when the search fails, the one reply of the cycle is "Failed to search
\* Spotify.", the catalog was called once, the error reaches the Error hook,
\* which logs it, the other cycles are left as they are, and the failed cycle
\* only ends: its goroutine is free for a later update.
C10_SearchFailure ==
    [][\A w \in Workers :
        /\ (cycle[w].stage = "group0" /\ cycle'[w].stage = "done"
                /\ Len(Searches(cycle'[w])) > 0 /\ ~cycle'[w].results.ok) =>
               /\ Replies(cycle'[w]) = <<Send(Plain(<<"Failed to search Spotify.">>))>>
               /\ Len(Searches(cycle'[w])) = 1
               /\ cycle'[w].err # ErrNil
               /\ cycle'[w].log # <<>>
               /\ cycle'[w].log[Len(cycle'[w].log)] = LogHandlerError
               /\ \A v \in Workers \ {w} : cycle'[v] = cycle[v]
        /\ (cycle[w].stage = "done" /\ cycle[w].err = ErrSearch
                /\ cycle'[w] # cycle[w]) =>
               cycle'[w] = Idle
      ]_vars

C10_Witness ==
    \E w \in Workers :
        /\ cycle[w].stage = "received"
        /\ \E v \in Workers :
            /\ Ended(v)
            /\ cycle[v].err = ErrSearch
            /\ Replies(cycle[v]) = <<Send(Plain(TextSearchFailed))>>

====
